---- MODULE Spec2Model ----
(***************************************************************************)
(* State-machine model of the Gemini Flashcards Tutor popup.               *)
(*                                                                         *)
(* The repository holds three builds of the popup script:                  *)
(*   "local"  src/extension/popup.js  - structured backend (FastAPI proxy),*)
(*            card deck, metadata panel;                                   *)
(*   "env"    src/unnamed/part_000    - direct Gemini call, key read from  *)
(*            extension/.env, plain-text result, context preview;          *)
(*   "paste"  src/unnamed/part_001    - direct Gemini call, key pasted in  *)
(*            the popup, plain-text result, context preview.               *)
(* The variable `variant` fixes the build for a whole behaviour.           *)
(*                                                                         *)
(* The popup is single-threaded and event-driven: one action of the model  *)
(* is one task of the event loop (an event handler, or the continuation of *)
(* an awaited external call together with the microtasks it triggers).     *)
(* A disabled button dispatches no click event.                            *)
(*                                                                         *)
(* Spec is the generation pipeline and the card deck; ModalSpec adds the   *)
(* events of the outline overlay; PureSpec makes single calls of the       *)
(* normalizers, renderMetadata, buildPrompt and the Markdown parser.       *)
(***************************************************************************)
EXTENDS Integers, Sequences, FiniteSets, TLC

VARIABLES
  variant,            \* which build of popup.js is running
  runs,               \* one record per handleGenerate invocation
  buttonsDisabled,    \* flashcardButton.disabled / every actionButton.disabled
  statusEl,           \* #status: message, loading indicator, error class
  resultEl,           \* #result and #resultSection
  deck,               \* closure state of renderFlashcards (the carousel)
  metadataEl,         \* #metadata panel
  contextSection,     \* #contextSection / #contextPreview (env, paste)
  envApiKeyPromise,   \* module-level promise of the .env key (env)
  cachedApiKey,       \* module-level pasted key (paste)
  unhandled,          \* a rejection left handleGenerate uncaught
  lastOp,             \* the handler or continuation that ran last
  lastArg,            \* the card index handed to the last dot click
  hierarchyModal,     \* outline overlays in the document, activeHierarchyModal
  probe               \* one call of a pure function: its input and output

vars == <<variant, runs, buttonsDisabled, statusEl, resultEl, deck,
          metadataEl, contextSection, envApiKeyPromise, cachedApiKey,
          unhandled, lastOp, lastArg, hierarchyModal, probe>>

-----------------------------------------------------------------------------
(* Bounds *)

MaxRuns == 2          \* handleGenerate invocations per popup session

-----------------------------------------------------------------------------
(* Program constants *)

MAX_CONTEXT_LENGTH == 6000

Variants == {"local", "env", "paste"}

-----------------------------------------------------------------------------
(* Page text.  A captured text is a sequence of runs [ch, n]: n copies of  *)
(* the character ch.  " " and "\n" are whitespace, every other ch is not.  *)

IsSpace(ch) == ch \in {" ", "\n"}

Run(ch, n) == [ch |-> ch, n |-> n]

RECURSIVE TextLen(_)
TextLen(t) == IF t = <<>> THEN 0 ELSE Head(t).n + TextLen(Tail(t))

RECURSIVE TrimStartText(_)
TrimStartText(t) ==
  IF t = <<>> THEN <<>>
  ELSE IF IsSpace(Head(t).ch) THEN TrimStartText(Tail(t)) ELSE t

RECURSIVE TrimEndText(_)
TrimEndText(t) ==
  IF t = <<>> THEN <<>>
  ELSE IF IsSpace(t[Len(t)].ch) THEN TrimEndText(SubSeq(t, 1, Len(t) - 1))
       ELSE t

\* String.prototype.trim
TrimText(t) == TrimEndText(TrimStartText(t))

\* text.slice(0, k)
RECURSIVE SliceText(_, _)
SliceText(t, k) ==
  IF t = <<>> \/ k <= 0 THEN <<>>
  ELSE IF Head(t).n <= k
       THEN <<Head(t)>> \o SliceText(Tail(t), k - Head(t).n)
       ELSE <<Run(Head(t).ch, k)>>

\* "\n\n[Context truncated after 6000 characters]": the bracketed notice is
\* one run of 41 characters of the class "notice"
TruncationNotice == <<Run("\n", 2), Run("notice", 41)>>

\* .replace(/\s+\n/g, "\n") on one maximal whitespace stretch w that follows
\* a non-whitespace character: the greedy match runs from the start of the
\* stretch to its last newline, provided a whitespace character precedes
\* that newline; what follows the last newline is kept
LastNewline(w) ==
  IF \E i \in 1..Len(w) : w[i].ch = "\n"
  THEN CHOOSE i \in 1..Len(w) :
         /\ w[i].ch = "\n"
         /\ \A j \in (i + 1)..Len(w) : w[j].ch # "\n"
  ELSE 0

CollapseStretch(w) ==
  LET j == LastNewline(w) IN
  IF j = 0 \/ (j = 1 /\ w[1].n = 1) THEN w
  ELSE <<Run("\n", 1)>> \o SubSeq(w, j + 1, Len(w))

\* length of the maximal whitespace stretch at the head of t, in runs
RECURSIVE StretchLen(_)
StretchLen(t) ==
  IF t = <<>> \/ ~IsSpace(Head(t).ch) THEN 0 ELSE 1 + StretchLen(Tail(t))

RECURSIVE ReplaceSpaceNewline(_)
ReplaceSpaceNewline(t) ==
  IF t = <<>> THEN <<>>
  ELSE IF IsSpace(Head(t).ch)
       THEN LET k == StretchLen(t) IN
            CollapseStretch(SubSeq(t, 1, k))
              \o ReplaceSpaceNewline(SubSeq(t, k + 1, Len(t)))
       ELSE <<Head(t)>> \o ReplaceSpaceNewline(Tail(t))

\* .replace(/\n{3,}/g, "\n\n")
RECURSIVE ReplaceNewlines3(_)
ReplaceNewlines3(t) ==
  IF t = <<>> THEN <<>>
  ELSE IF Head(t).ch = "\n" /\ Head(t).n >= 3
       THEN <<Run("\n", 2)>> \o ReplaceNewlines3(Tail(t))
       ELSE <<Head(t)>> \o ReplaceNewlines3(Tail(t))

\* the injected function trimming the selection only
InjectedFuncUntrimmedBody(rawSelection, rawBody) ==
  [selection |-> TrimText(rawSelection),
   body      |-> ReplaceNewlines3(ReplaceSpaceNewline(rawBody))]

\* the function injected into the page
InjectedFunc(rawSelection, rawBody) ==
  [selection |-> TrimText(rawSelection),
   body      |-> ReplaceNewlines3(ReplaceSpaceNewline(TrimText(rawBody)))]

\* collectPageContext preferring the body: body || selection
NormalizeContextBodyFirst(injected) ==
  LET selection == injected.selection
      body == injected.body
      text == IF body # <<>> THEN body ELSE selection
      usedSelection == selection # <<>>
  IN IF TextLen(text) > MAX_CONTEXT_LENGTH
     THEN [text |-> SliceText(text, MAX_CONTEXT_LENGTH) \o TruncationNotice,
           truncated |-> TRUE, usedSelection |-> usedSelection]
     ELSE [text |-> text, truncated |-> FALSE,
           usedSelection |-> usedSelection]

\* collectPageContext appending the notice to the whole text
NormalizeContextNoSlice(injected) ==
  LET selection == injected.selection
      body == injected.body
      text == IF selection # <<>> THEN selection ELSE body
      usedSelection == selection # <<>>
  IN IF TextLen(text) > MAX_CONTEXT_LENGTH
     THEN [text |-> text \o TruncationNotice,
           truncated |-> TRUE, usedSelection |-> usedSelection]
     ELSE [text |-> text, truncated |-> FALSE,
           usedSelection |-> usedSelection]

\* collectPageContext truncating from MAX_CONTEXT_LENGTH characters on
NormalizeContextAtLimit(injected) ==
  LET selection == injected.selection
      body == injected.body
      text == IF selection # <<>> THEN selection ELSE body
      usedSelection == selection # <<>>
  IN IF TextLen(text) >= MAX_CONTEXT_LENGTH
     THEN [text |-> SliceText(text, MAX_CONTEXT_LENGTH) \o TruncationNotice,
           truncated |-> TRUE, usedSelection |-> usedSelection]
     ELSE [text |-> text, truncated |-> FALSE,
           usedSelection |-> usedSelection]

\* collectPageContext, from the injection result on
NormalizeContext(injected) ==
  LET selection == injected.selection
      body == injected.body
      text == IF selection # <<>> THEN selection ELSE body
      usedSelection == selection # <<>>
  IN IF TextLen(text) > MAX_CONTEXT_LENGTH
     THEN [text |-> SliceText(text, MAX_CONTEXT_LENGTH) \o TruncationNotice,
           truncated |-> TRUE, usedSelection |-> usedSelection]
     ELSE [text |-> text, truncated |-> FALSE,
           usedSelection |-> usedSelection]

NoContext == [text |-> <<>>, truncated |-> FALSE, usedSelection |-> FALSE]

\* captured page texts the page-inspection collaborator may see
Short == <<Run("a", 3)>>
Padded == <<Run(" ", 1), Run("b", 2), Run("\n", 3), Run("b", 1), Run(" ", 2)>>
Blank == <<Run(" ", 2), Run("\n", 1)>>
Long == <<Run("c", MAX_CONTEXT_LENGTH + 1)>>

RawSelections == {<<>>, Blank, Short}
RawBodies == {<<>>, Blank, Padded, Long}

-----------------------------------------------------------------------------
(* Strings of the backend payload: sequences of one-character strings.     *)

RECURSIVE TrimStart(_)
TrimStart(s) ==
  IF s = <<>> THEN <<>>
  ELSE IF IsSpace(Head(s)) THEN TrimStart(Tail(s)) ELSE s

RECURSIVE TrimEnd(_)
TrimEnd(s) ==
  IF s = <<>> THEN <<>>
  ELSE IF IsSpace(s[Len(s)]) THEN TrimEnd(SubSeq(s, 1, Len(s) - 1)) ELSE s

Trim(s) == TrimEnd(TrimStart(s))

\* JSON values of the payload fields: undefined (field absent), null,
\* a string, a number
Undef == [t |-> "undef", s |-> <<>>, n |-> 0]
Null == [t |-> "null", s |-> <<>>, n |-> 0]
Str(s) == [t |-> "str", s |-> s, n |-> 0]
Num(n) == [t |-> "num", s |-> <<>>, n |-> n]

\* String(value) of a small non-negative integer
Digit(d) == <<"0", "1", "2", "3", "4", "5", "6", "7", "8", "9">>[d + 1]

RECURSIVE Digits(_)
Digits(n) == IF n < 10 THEN <<Digit(n)>>
             ELSE Digits(n \div 10) \o <<Digit(n % 10)>>

ToStr(value) == IF value.t = "num" THEN Digits(value.n) ELSE value.s

\* toCleanString without the trim
toCleanStringNoTrim(value) ==
  IF value.t \in {"null", "undef"} THEN <<>> ELSE ToStr(value)

toCleanString(value) ==
  IF value.t \in {"null", "undef"} THEN <<>> ELSE Trim(ToStr(value))

\* payload.cards: absent, null, or a mapping listed in iteration order;
\* each entry is [id, front, back] with front/back JSON values
NoCards == [t |-> "undef", entries |-> <<>>]
NullCards == [t |-> "null", entries |-> <<>>]
CardsObject(entries) == [t |-> "obj", entries |-> entries]

RECURSIVE MapFilterCards(_)
MapFilterCards(entries) ==
  IF entries = <<>> THEN <<>>
  ELSE LET e == Head(entries)
           card == [id |-> e.id,
                    front |-> toCleanString(e.front),
                    back |-> toCleanString(e.back)]
       IN (IF card.front # <<>> THEN <<card>> ELSE <<>>)
            \o MapFilterCards(Tail(entries))

\* the array index a property key stands for (a canonical decimal numeral),
\* -1 for any other key; on the keys the payloads use
KeyIndex(id) ==
  CASE id = "1" -> 1
    [] id = "2" -> 2
    [] id = "3" -> 3
    [] id = "9" -> 9
    [] id = "10" -> 10
    [] OTHER -> 0 - 1

\* Object.entries(cardsObject) of a parsed JSON object whose members the
\* body lists as `entries` (keys distinct): the members with an array-index
\* key in ascending numeric order, then the others in the order listed
ObjectEntries(entries) ==
  LET indexed == {k \in 1..Len(entries) : KeyIndex(entries[k].id) >= 0}
      n == Cardinality(indexed)
      ascending ==
        CHOOSE f \in [1..n -> indexed] :
          \A i, j \in 1..n :
            i < j => KeyIndex(entries[f[i]].id) < KeyIndex(entries[f[j]].id)
      Named(e) == KeyIndex(e.id) < 0
  IN [i \in 1..n |-> entries[ascending[i]]] \o SelectSeq(entries, Named)

normalizeFlashcards(cardsObject) ==
  IF cardsObject.t # "obj" THEN <<>>
  ELSE MapFilterCards(ObjectEntries(cardsObject.entries))

-----------------------------------------------------------------------------
(* Card deck: the closure of renderFlashcards.  Indices are those of the   *)
(* source (0-based); cards[i + 1] is the source's cards[i].                *)

NoDeck == [cards |-> <<>>, currentIndex |-> 0, isFlipped |-> FALSE,
           dots |-> <<>>, prevDisabled |-> FALSE, nextDisabled |-> FALSE]

\* updateCard storing the position after the one shown
updateCardOffByOne(d, index) ==
  [cards |-> d.cards,
   currentIndex |-> index + 1,
   isFlipped |-> FALSE,
   dots |-> [dotIndex \in 1..Len(d.cards) |-> (dotIndex - 1) = index],
   prevDisabled |-> (index = 0),
   nextDisabled |-> (index = Len(d.cards) - 1)]

\* updateCard leaving the is-flipped class of the card in place
updateCardKeepFlip(d, index) ==
  [cards |-> d.cards,
   currentIndex |-> index,
   isFlipped |-> d.isFlipped,
   dots |-> [dotIndex \in 1..Len(d.cards) |-> (dotIndex - 1) = index],
   prevDisabled |-> (index = 0),
   nextDisabled |-> (index = Len(d.cards) - 1)]

\* updateCard marking the dot of the shown card without unmarking the others
updateCardDotsAccumulate(d, index) ==
  [cards |-> d.cards,
   currentIndex |-> index,
   isFlipped |-> FALSE,
   dots |-> [dotIndex \in 1..Len(d.cards) |->
               d.dots[dotIndex] \/ (dotIndex - 1) = index],
   prevDisabled |-> (index = 0),
   nextDisabled |-> (index = Len(d.cards) - 1)]

\* updateCard disabling nextButton one card early
updateCardNextDisabledEarly(d, index) ==
  [cards |-> d.cards,
   currentIndex |-> index,
   isFlipped |-> FALSE,
   dots |-> [dotIndex \in 1..Len(d.cards) |-> (dotIndex - 1) = index],
   prevDisabled |-> (index = 0),
   nextDisabled |-> (index >= Len(d.cards) - 2)]

\* updateCard returning at once when the card asked for is the one shown
updateCardSkipSame(d, index) ==
  IF index = d.currentIndex /\ \E dotIndex \in DOMAIN d.dots : d.dots[dotIndex]
  THEN d
  ELSE [cards |-> d.cards,
        currentIndex |-> index,
        isFlipped |-> FALSE,
        dots |-> [dotIndex \in 1..Len(d.cards) |-> (dotIndex - 1) = index],
        prevDisabled |-> (index = 0),
        nextDisabled |-> (index = Len(d.cards) - 1)]

\* updateCard(index) applied to the carousel d
updateCard(d, index) ==
  [cards |-> d.cards,
   currentIndex |-> index,
   isFlipped |-> FALSE,
   dots |-> [dotIndex \in 1..Len(d.cards) |-> (dotIndex - 1) = index],
   prevDisabled |-> (index = 0),
   nextDisabled |-> (index = Len(d.cards) - 1)]

\* renderFlashcards with currentIndex kept at module level: the new carousel
\* opens where the previous one stood
renderFlashcardsKeepIndex(cards) ==
  updateCard([cards |-> cards, currentIndex |-> 0, isFlipped |-> FALSE,
              dots |-> [dotIndex \in 1..Len(cards) |-> FALSE],
              prevDisabled |-> FALSE, nextDisabled |-> FALSE],
             IF deck.currentIndex < Len(cards) THEN deck.currentIndex ELSE 0)

\* renderFlashcards(cards), cards non-empty: build the carousel, updateCard(0)
renderFlashcards(cards) ==
  updateCard([cards |-> cards, currentIndex |-> 0, isFlipped |-> FALSE,
              dots |-> [dotIndex \in 1..Len(cards) |-> FALSE],
              prevDisabled |-> FALSE, nextDisabled |-> FALSE], 0)

\* guards of the prevButton / nextButton click handlers
canPrev(d) == d.currentIndex > 0
canNext(d) == d.currentIndex < Len(d.cards) - 1

\* card click handler adding the is-flipped class instead of toggling it
toggleFlipAdd(d) == [d EXCEPT !.isFlipped = TRUE]

\* card click handler: classList.toggle("is-flipped")
toggleFlip(d) == [d EXCEPT !.isFlipped = ~d.isFlipped]

-----------------------------------------------------------------------------
(* Metadata panel *)

Marker == <<"n", "o", "t", "e", " ", "a", "b", "o", "u", "t", " ", "j", "o",
            "b", " ", "f", "u", "n", "c", "t", "i", "o", "n", ":">>

\* String.prototype.toLowerCase on the letters the payloads use
LowerChar(c) ==
  CASE c = "N" -> "n"
    [] c = "H" -> "h"
    [] OTHER -> c

toLowerCase(s) == [i \in 1..Len(s) |-> LowerChar(s[i])]

\* s.lastIndexOf(m): 0-based position of the last occurrence, -1 if none
OccursAt(s, m, i) ==
  /\ i + Len(m) <= Len(s)
  /\ \A k \in 1..Len(m) : s[i + k] = m[k]

lastIndexOf(s, m) ==
  LET hits == {i \in 0..Len(s) : OccursAt(s, m, i)} IN
  IF hits = {} THEN -1 ELSE CHOOSE i \in hits : \A j \in hits : j <= i

\* parseInformationHierarchy splitting at the first occurrence (indexOf)
parseInformationHierarchyFirst(rawValue) ==
  IF rawValue = <<>> THEN [hierarchy |-> <<>>, jobNote |-> <<>>]
  ELSE LET lowerValue == toLowerCase(rawValue)
           hits == {i \in 0..Len(rawValue) : OccursAt(lowerValue, Marker, i)}
           markerIndex == IF hits = {} THEN 0 - 1
                          ELSE CHOOSE i \in hits : \A j \in hits : i <= j
       IN
       IF markerIndex = -1
       THEN [hierarchy |-> Trim(rawValue), jobNote |-> <<>>]
       ELSE [hierarchy |-> Trim(SubSeq(rawValue, 1, markerIndex)),
             jobNote |-> Trim(SubSeq(rawValue, markerIndex + 1,
                                     Len(rawValue)))]

parseInformationHierarchy(rawValue) ==
  IF rawValue = <<>> THEN [hierarchy |-> <<>>, jobNote |-> <<>>]
  ELSE LET markerIndex == lastIndexOf(toLowerCase(rawValue), Marker) IN
       IF markerIndex = -1
       THEN [hierarchy |-> Trim(rawValue), jobNote |-> <<>>]
       ELSE [hierarchy |-> Trim(SubSeq(rawValue, 1, markerIndex)),
             jobNote |-> Trim(SubSeq(rawValue, markerIndex + 1,
                                     Len(rawValue)))]

\* describeRating with exclusive lower bounds
describeRatingExclusive(score) ==
  IF score > 8 THEN "High depth content - great for learning."
  ELSE IF score > 5 THEN "Moderate depth - useful but could go deeper."
  ELSE IF score > 1 THEN "Light coverage - mostly surface-level info."
  ELSE "No rating available."

describeRating(score) ==
  IF score >= 8 THEN "High depth content - great for learning."
  ELSE IF score >= 5 THEN "Moderate depth - useful but could go deeper."
  ELSE IF score >= 1 THEN "Light coverage - mostly surface-level info."
  ELSE "No rating available."

\* clearMetadata: emptied and hidden.  `from` is the run whose response the
\* panel was rendered from (0: none).
ClearedMetadata ==
  [hidden |-> TRUE, hasRating |-> FALSE, rating |-> 0, description |-> "",
   hasHierarchyCard |-> FALSE, hierarchy |-> <<>>, jobNote |-> <<>>,
   selectionNotes |-> <<>>, from |-> 0]

\* renderMetadata attaching the wrapper even when it has nothing to hold
renderMetadataAlwaysShown(payload, contextInfo, r) ==
  LET hasRating == payload.content_rating.t = "num"
      rating == payload.content_rating.n
      rawHierarchy == toCleanString(payload.information_hierarchy)
      parsed == parseInformationHierarchy(rawHierarchy)
      selectionNotes ==
        (IF contextInfo.usedSelection
         THEN <<"Generated from your selection.">> ELSE <<>>)
        \o (IF contextInfo.truncated
            THEN <<"Context truncated to "
                     \o ToString(MAX_CONTEXT_LENGTH) \o " characters.">>
            ELSE <<>>)
  IN IF FALSE
     THEN ClearedMetadata
     ELSE [hidden |-> FALSE,
           hasRating |-> hasRating,
           rating |-> IF hasRating THEN rating ELSE 0,
           description |-> IF hasRating THEN describeRating(rating) ELSE "",
           hasHierarchyCard |->
             (parsed.hierarchy # <<>> \/ parsed.jobNote # <<>>),
           hierarchy |-> parsed.hierarchy,
           jobNote |-> parsed.jobNote,
           selectionNotes |-> selectionNotes,
           from |-> r]

\* renderMetadata(payload, contextInfo), rendered for run r
renderMetadata(payload, contextInfo, r) ==
  LET hasRating == payload.content_rating.t = "num"
      rating == payload.content_rating.n
      rawHierarchy == toCleanString(payload.information_hierarchy)
      parsed == parseInformationHierarchy(rawHierarchy)
      selectionNotes ==
        (IF contextInfo.usedSelection
         THEN <<"Generated from your selection.">> ELSE <<>>)
        \o (IF contextInfo.truncated
            THEN <<"Context truncated to "
                     \o ToString(MAX_CONTEXT_LENGTH) \o " characters.">>
            ELSE <<>>)
  IN IF /\ ~hasRating
        /\ parsed.hierarchy = <<>>
        /\ parsed.jobNote = <<>>
        /\ selectionNotes = <<>>
     THEN ClearedMetadata
     ELSE [hidden |-> FALSE,
           hasRating |-> hasRating,
           rating |-> IF hasRating THEN rating ELSE 0,
           description |-> IF hasRating THEN describeRating(rating) ELSE "",
           hasHierarchyCard |->
             (parsed.hierarchy # <<>> \/ parsed.jobNote # <<>>),
           hierarchy |-> parsed.hierarchy,
           jobNote |-> parsed.jobNote,
           selectionNotes |-> selectionNotes,
           from |-> r]

-----------------------------------------------------------------------------
(* Outline overlay.  `overlays` counts the overlay elements attached to    *)
(* document.body; `active` tells whether activeHierarchyModal holds one    *)
(* (the one attached last); `keydown` tells whether                        *)
(* handleHierarchyModalKeydown is registered on the document (registering  *)
(* the same function again adds nothing).                                  *)

NoModal == [overlays |-> 0, active |-> FALSE, keydown |-> FALSE]

\* closeHierarchyModal leaving the keydown listener on the document
closeHierarchyModalKeepListener(m) ==
  IF ~m.active THEN m
  ELSE [overlays |-> m.overlays - 1, active |-> FALSE, keydown |-> TRUE]

closeHierarchyModal(m) ==
  IF ~m.active THEN m
  ELSE [overlays |-> m.overlays - 1, active |-> FALSE, keydown |-> FALSE]

\* showHierarchyModal attaching the new overlay without closing the open one
showHierarchyModalNoClose(m, hierarchyText, jobNote) ==
  IF hierarchyText = <<>> /\ jobNote = <<>> THEN m
  ELSE [overlays |-> m.overlays + 1, active |-> TRUE, keydown |-> TRUE]

showHierarchyModal(m, hierarchyText, jobNote) ==
  LET closed == closeHierarchyModal(m) IN
  IF hierarchyText = <<>> /\ jobNote = <<>> THEN closed
  ELSE [overlays |-> closed.overlays + 1, active |-> TRUE, keydown |-> TRUE]

-----------------------------------------------------------------------------
(* Status line *)

\* setStatus(message, { loading, error })
setStatus(message, loading, error) ==
  [text |-> IF loading /\ message = "" THEN "Working..." ELSE message,
   loading |-> loading,
   error |-> error,
   hidden |-> (message = "" /\ ~loading)]

MsgCollecting == "Collecting the page context..."
MsgTalking(v) == IF v = "local" THEN "Talking with Gemini..."
                 ELSE "Talking with Gemini Flash..."
MsgDone(v) == IF v = "local"
              THEN "Cards ready! Click a card to reveal the answer."
              ELSE "Done! Review the study material below."
MsgNoKey(v) == IF v = "env"
               THEN "Add your Gemini API key to extension/.env to get started."
               ELSE "Paste your Gemini API key and click Load key to get started."
MsgEmptyContext ==
  "Couldn't read any text on this page. Try selecting the content first."
MsgNoTab == "Couldn't find the active tab."
MsgInjectFailed ==
  "Chrome couldn't access this tab. Try reloading the page and opening the extension again."
MsgUnreachable ==
  "Could not reach the local Gemini server. Start the FastAPI app and try again."
MsgUnexpected == "Local API returned an unexpected response."
MsgEmptyResponse ==
  "Gemini returned an empty response. Try again or adjust the highlighted content."
MsgFallback == "Something went wrong while generating."
MsgNoCards ==
  "Gemini did not return any flashcards. Try again with a smaller selection."

\* messages of errors raised by the platform (chrome.tabs.query, fetch);
\* an error may carry an empty message
PlatformMessages == {"", "Failed to fetch"}

-----------------------------------------------------------------------------
(* Backend responses *)

\* payload.detail / payload.error.message: absent, or a string
NoText == [present |-> FALSE, text |-> ""]
Text(s) == [present |-> TRUE, text |-> s]

\* candidates[0].content.parts: absent, or a list of { text } parts
NoParts == [t |-> "undef", items |-> <<>>]
Parts(items) == [t |-> "arr", items |-> items]

\* the parsed body: a JSON object with the fields the popup reads, or a
\* JSON null, or a JSON number
Object(detail, errorMessage, cards, rating, hierarchy, parts) ==
  [kind |-> "object", detail |-> detail, errorMessage |-> errorMessage,
   cards |-> cards, content_rating |-> rating,
   information_hierarchy |-> hierarchy, parts |-> parts]

EmptyObject == Object(NoText, NoText, NoCards, Undef, Undef, NoParts)
JsonNull == [EmptyObject EXCEPT !.kind = "null"]
JsonNumber == [EmptyObject EXCEPT !.kind = "number"]

\* !payload || typeof payload !== "object"
IsObject(payload) == payload.kind = "object"

\* callGemini ignoring the body of a failed response
errorMessageGeneric(v, payload, status) ==
  (IF v = "local" THEN "Local API error (" ELSE "Gemini API error (")
    \o ToString(status) \o ")"

\* payload?.detail || `Local API error (${status})`
\* payload?.error?.message || `Gemini API error (${status})`
errorMessage(v, payload, status) ==
  LET field == IF v = "local" THEN payload.detail ELSE payload.errorMessage IN
  IF IsObject(payload) /\ field.present /\ field.text # ""
  THEN field.text
  ELSE (IF v = "local" THEN "Local API error (" ELSE "Gemini API error (")
         \o ToString(status) \o ")"

\* response.ok
IsOk(status) == status >= 200 /\ status <= 299

\* parts?.map((part) => part?.text ?? "").join("").trim()
RECURSIVE JoinParts(_)
JoinParts(items) ==
  IF items = <<>> THEN <<>>
  ELSE (IF Head(items).t \in {"undef", "null"} THEN <<>>
        ELSE ToStr(Head(items)))
         \o JoinParts(Tail(items))

candidateText(payload) ==
  IF ~IsObject(payload) \/ payload.parts.t = "undef" THEN <<>>
  ELSE Trim(JoinParts(payload.parts.items))

\* payloads of the structured backend (local)
Card(id, front, back) == [id |-> id, front |-> front, back |-> back]

OneCard == CardsObject(<<Card("1", Str(<<" ">>), Str(<<"x">>)),
                         Card("2", Str(<<"Z", " ">>), Str(<<>>))>>)
ThreeCards == CardsObject(<<Card("b", Str(<<"P">>), Str(<<"p">>)),
                            Card("a", Str(<<" ", "Q">>), Null),
                            Card("c", Num(7), Str(<<"r", "\n">>))>>)
BlankCards == CardsObject(<<Card("1", Null, Str(<<"x">>)),
                            Card("2", Undef, Undef)>>)

Outline == <<"H", "\n", " ", "-", " ", "h">>
OutlineWithNote == <<"H", " ">> \o <<"N", "o", "t", "e", " ", "a", "b", "o",
                     "u", "t", " ", "j", "o", "b", " ", "f", "u", "n", "c",
                     "t", "i", "o", "n", ":", " ", "x">>

LocalPayloads ==
  { EmptyObject, JsonNull, JsonNumber,
    Object(Text("Quota exceeded"), NoText, NoCards, Undef, Undef, NoParts),
    Object(Text(""), NoText, NoCards, Undef, Undef, NoParts),
    Object(NoText, NoText, NullCards, Undef, Undef, NoParts),
    Object(NoText, NoText, BlankCards, Num(3), Str(<<" ">>), NoParts),
    Object(NoText, NoText, OneCard, Undef, Undef, NoParts),
    Object(NoText, NoText, ThreeCards, Num(7), Str(OutlineWithNote), NoParts),
    Object(NoText, NoText, ThreeCards, Str(<<"7">>), Str(Outline), NoParts) }

\* payloads of the Gemini API (env, paste)
GeminiPayloads ==
  { EmptyObject, JsonNull,
    Object(NoText, Text("API key not valid"), NoCards, Undef, Undef, NoParts),
    Object(NoText, Text(""), NoCards, Undef, Undef, NoParts),
    Object(Text("Quota exceeded"), NoText, NoCards, Undef, Undef, NoParts),
    Object(NoText, NoText, NoCards, Undef, Undef,
           Parts(<<Str(<<" ">>), Undef>>)),
    Object(NoText, NoText, NoCards, Undef, Undef,
           Parts(<<Str(<<" ", "S">>), Str(<<"s", "\n">>)>>)) }

Payloads(v) == IF v = "local" THEN LocalPayloads ELSE GeminiPayloads

HttpStatuses == {200, 500}

-----------------------------------------------------------------------------
(* handleGenerate invocations *)

RunIds == 1..MaxRuns

\* pc: the await the invocation is suspended on
\*   "key"    await resolveApiKey() on the pending .env promise (env)
\*   "tabs"   await chrome.tabs.query
\*   "inject" await chrome.scripting.executeScript
\*   "fetch"  await fetch
\*   "json"   await response.json()
\* ctx, httpStatus: locals of the invocation.  outcome, err and the fields
\* after them record how the invocation went; envKey is the value its
\* await of getEnvApiKey() produced (env).
IdleRun ==
  [pc |-> "idle", ctx |-> NoContext, httpStatus |-> 0,
   outcome |-> "none", err |-> "",
   bothEmpty |-> FALSE, called |-> FALSE, emptyOk |-> FALSE,
   detail |-> NoText, envKey |-> <<>>]

InFlight(r) == runs[r].pc \in {"key", "tabs", "inject", "fetch", "json"}

\* invocations are numbered in the order of the clicks
IsNext(r) == /\ runs[r].pc = "idle"
             /\ \A q \in RunIds : q < r => runs[q].pc # "idle"

\* a try block opened after collectPageContext has returned
InTryAfterCollect(site) ==
  site \in {"empty", "fetch", "status", "payload"}

\* the awaits and throws that the try block of handleGenerate encloses
InTry(site) ==
  site \in {"tabs", "notab", "inject", "empty", "fetch", "status", "payload"}

\* the buttons re-enabled at the end of the try block instead of in finally
finallyDisabledOnThrow(outcome) == outcome = "failed"

\* setButtonsDisabled(false) of the finally block
finallyDisabled(outcome) == FALSE

\* run record after the invocation has ended
Ended(run, outcome, err) ==
  [run EXCEPT !.pc = "done", !.ctx = NoContext,
              !.outcome = outcome, !.err = err]

\* how an invocation ended is on record for one step after its end
Forgotten(run) ==
  IF run.pc = "done" THEN [IdleRun EXCEPT !.pc = "done"] ELSE run

Live == [q \in RunIds |-> Forgotten(runs[q])]

\* a failure raised at `site` with `message` in invocation r, the run record
\* being `run` at that point: catch + finally when the site is inside the
\* try block, an unhandled rejection otherwise
Fail(r, run, site, message) ==
  IF InTry(site)
  THEN LET shown == IF message # "" THEN message ELSE MsgFallback IN
       /\ runs' = [Live EXCEPT ![r] = Ended(run, "failed", shown)]
       /\ statusEl' = setStatus(shown, FALSE, TRUE)
       /\ buttonsDisabled' = finallyDisabled("failed")
       /\ UNCHANGED unhandled
  ELSE /\ runs' = [Live EXCEPT ![r] = Ended(run, "escaped", message)]
       /\ unhandled' = TRUE
       /\ UNCHANGED <<statusEl, buttonsDisabled>>

\* envApiKeyPromise: unset, pending or resolved with a value; `fetches`
\* counts the fetches of the .env file made so far
NoPromise == [state |-> "unset", value |-> <<>>, fetches |-> 0]

\* fetchEnvApiKey() up to its first await: the file is requested and a
\* pending promise is returned
fetchEnvApiKey(promise) ==
  [state |-> "pending", value |-> <<>>, fetches |-> promise.fetches + 1]

\* getEnvApiKey fetching again when the key it has is empty
getEnvApiKeyRetryEmpty(promise) ==
  IF \/ promise.state = "unset"
     \/ promise.state = "resolved" /\ promise.value = <<>>
  THEN fetchEnvApiKey(promise) ELSE promise

\* getEnvApiKey(): the module-level promise after the call (a promise is
\* truthy whatever it resolves with)
getEnvApiKey(promise) ==
  IF promise.state = "unset" THEN fetchEnvApiKey(promise) ELSE promise

\* handleGenerate returning early for want of a key (env, paste)
NoKey(run) ==
  [run |-> Ended(run, "nokey", ""),
   status |-> setStatus(MsgNoKey(variant), FALSE, TRUE),
   disabled |-> buttonsDisabled]

\* handleGenerate from the top of the try block to its first await
\* (chrome.tabs.query inside collectPageContext)
EnterTry(run) ==
  [run |-> [run EXCEPT !.pc = "tabs"],
   status |-> setStatus(MsgCollecting, TRUE, FALSE),
   disabled |-> TRUE]

\* handleGenerate once resolveApiKey() has produced apiKey (env, paste)
WithKey(run, apiKey) == IF apiKey = <<>> THEN NoKey(run) ELSE EnterTry(run)

\* showContext(contextInfo) for invocation r (env, paste)
showContext(contextInfo, r) ==
  IF contextInfo.text = <<>>
  THEN [contextSection EXCEPT !.hidden = TRUE]
  ELSE [hidden |-> FALSE,
        preview |-> contextInfo.text,
        heading |->
          (IF contextInfo.usedSelection
           THEN "Context from your highlighted selection"
           ELSE "Context extracted from the page")
           \o (IF contextInfo.truncated THEN " (truncated)" ELSE ""),
        from |-> r]

\* #result: nothing yet, the empty-state message, the carousel (local) or the
\* output text (env, paste); `from` is the invocation that rendered it
NoResult == [kind |-> "none", message |-> "", text |-> <<>>,
             hasFlashcards |-> FALSE, sectionHidden |-> TRUE, from |-> 0]

-----------------------------------------------------------------------------
(* Single calls of the two normalizers, on inputs the pipeline above does  *)
(* not enumerate: page texts around MAX_CONTEXT_LENGTH, long selections,   *)
(* and every small mapping of card entries.                                *)

MaxEntries == 2

PaddedSelection == <<Run("\n", 1), Run("s", 2), Run(" ", 1)>>
AtLimit == <<Run("d", MAX_CONTEXT_LENGTH)>>
AtLimitPadded == <<Run("e", MAX_CONTEXT_LENGTH), Run(" ", 1)>>
LongPadded == <<Run(" ", 1), Run("f", MAX_CONTEXT_LENGTH + 2)>>

PageSelections ==
  {<<>>, Blank, Short, PaddedSelection, AtLimit, AtLimitPadded, Long,
   LongPadded}
PageBodies == {<<>>, Blank, Short, Padded, AtLimit, AtLimitPadded, Long}

FrontValues ==
  {Undef, Null, Str(<<>>), Str(<<" ", "\n">>), Str(<<" ", "Q", " ">>), Num(7)}
BackValues == {Undef, Str(<<" ">>), Str(<<"a", " ">>)}

\* the mapping whose i-th entry, in iteration order, has key i
Entries(values) ==
  [i \in 1..Len(values) |-> Card(ToString(i), values[i][1], values[i][2])]

CardsObjects ==
  {NoCards, NullCards} \cup
  {CardsObject(Entries(values)) :
     values \in UNION {[1..n -> FrontValues \X BackValues] :
                         n \in 0..MaxEntries}}
  \cup {CardsObject(<<Card("2", Str(<<"B">>), Str(<<"b">>)),
                      Card("1", Str(<<"A">>), Str(<<"a">>))>>),
        CardsObject(<<Card("b", Str(<<"B">>), Str(<<"b">>)),
                      Card("10", Str(<<"T">>), Null),
                      Card("a", Str(<<"A">>), Str(<<"a">>)),
                      Card("9", Str(<<"N">>), Str(<<"n">>))>>)}

\* buildPrompt nesting the truncation note inside the selection note
buildPromptNestedNotes(action, contextInfo) ==
  LET Part(part) == [part |-> part, text |-> <<>>] IN
  <<Part("intro")>>
    \o (IF contextInfo.usedSelection
        THEN <<Part("selectionNote")>>
               \o (IF contextInfo.truncated THEN <<Part("truncationNote")>>
                   ELSE <<>>)
        ELSE <<>>)
    \o <<Part("Context:"), [part |-> "text", text |-> contextInfo.text],
         Part("Task:")>>
    \o <<Part(CASE action = "summary" -> "summary task"
               [] action = "flashcards" -> "flashcards task"
               [] action = "quiz" -> "quiz task"
               [] OTHER -> "default task")>>

\* buildPrompt(action, contextInfo) (env, paste): the template literal as
\* the sequence of its pieces, the page text being the piece "text"
buildPrompt(action, contextInfo) ==
  LET Part(part) == [part |-> part, text |-> <<>>] IN
  <<Part("intro")>>
    \o (IF contextInfo.usedSelection THEN <<Part("selectionNote")>> ELSE <<>>)
    \o (IF contextInfo.truncated THEN <<Part("truncationNote")>> ELSE <<>>)
    \o <<Part("Context:"), [part |-> "text", text |-> contextInfo.text],
         Part("Task:")>>
    \o <<Part(CASE action = "summary" -> "summary task"
               [] action = "flashcards" -> "flashcards task"
               [] action = "quiz" -> "quiz task"
               [] OTHER -> "default task")>>

\* button.dataset.action of the clicked button
Actions == {"summary", "flashcards", "quiz", "explain"}

\* Markdown response parser (Variant A of the response parser; no build
\* under src/ holds it: they show the response text as it is).  A response
\* is the sequence of its lines, each classified as the parser classifies
\* it: "question" is a line with a bold-emphasis prefix, its text the
\* emphasised text after cleaning; "bullet" is a line starting with - or *,
\* its text what follows the marker; "blank"; "text" any other line.
MaxLines == 4

Line(kind, text) == [kind |-> kind, text |-> text]

MarkdownLines ==
  {Line("question", "What is X?"), Line("question", "What is Z?"),
   Line("question", ""), Line("text", "X is Y."), Line("bullet", "A"),
   Line("blank", "")}

MarkdownResponses == UNION {[1..n -> MarkdownLines] : n \in 0..MaxLines}

NoOpenCard == [open |-> FALSE, question |-> "", answerLines |-> <<>>]

\* one more line of the answer of the card in progress
Accumulate(answerLines, line) ==
  CASE line.kind = "blank" ->
         IF answerLines = <<>> \/ answerLines[Len(answerLines)] = ""
         THEN answerLines ELSE Append(answerLines, "")
    [] line.kind = "bullet" -> Append(answerLines, "(bullet) " \o line.text)
    [] OTHER -> Append(answerLines, line.text)

\* flush keeping a card that has no question text
FlushKeepAll(cards, card) ==
  IF ~card.open THEN cards
  ELSE LET n == Len(card.answerLines)
           trimmed == IF n > 0 /\ card.answerLines[n] = ""
                      THEN SubSeq(card.answerLines, 1, n - 1)
                      ELSE card.answerLines
       IN Append(cards,
                 [question |-> card.question,
                  answerLines |-> IF trimmed = <<>>
                                  THEN <<"No answer provided.">>
                                  ELSE trimmed])

\* finalize the card in progress
Flush(cards, card) ==
  IF ~card.open \/ card.question = "" THEN cards
  ELSE LET n == Len(card.answerLines)
           trimmed == IF n > 0 /\ card.answerLines[n] = ""
                      THEN SubSeq(card.answerLines, 1, n - 1)
                      ELSE card.answerLines
       IN Append(cards,
                 [question |-> card.question,
                  answerLines |-> IF trimmed = <<>>
                                  THEN <<"No answer provided.">>
                                  ELSE trimmed])

RECURSIVE Scan(_, _, _)
Scan(lines, cards, card) ==
  IF lines = <<>> THEN Flush(cards, card)
  ELSE LET line == Head(lines) IN
       IF line.kind = "question"
       THEN Scan(Tail(lines), Flush(cards, card),
                 [open |-> TRUE, question |-> line.text,
                  answerLines |-> <<>>])
       ELSE IF ~card.open THEN Scan(Tail(lines), cards, card)
       ELSE Scan(Tail(lines), cards,
                 [card EXCEPT
                    !.answerLines = Accumulate(card.answerLines, line)])

parseMarkdown(lines) == Scan(lines, <<>>, NoOpenCard)

\* content_rating and information_hierarchy fields of a response
RatingValues ==
  {Undef, Null, Str(<<"7">>)} \cup {Num(n) : n \in (0 - 1)..11}
HierarchyValues ==
  {Undef, Null, Str(<<" ">>), Str(<<" ">> \o Outline \o <<"\n">>),
   Str(OutlineWithNote), Str(Marker),
   Str(OutlineWithNote \o <<"\n">> \o Marker \o <<" ", "y">>)}

NoProbe ==
  [fn |-> "none", selection |-> <<>>, body |-> <<>>, cardsObject |-> NoCards,
   context |-> NoContext, cards |-> <<>>, payload |-> EmptyObject,
   contextInfo |-> NoContext, metadata |-> ClearedMetadata,
   action |-> "", prompt |-> <<>>, lines |-> <<>>, flashcards |-> <<>>,
   done |-> FALSE]

PageProbe(rawSelection, rawBody) ==
  [NoProbe EXCEPT !.fn = "collectPageContext", !.selection = rawSelection,
                  !.body = rawBody]

CardsProbe(cardsObject) ==
  [NoProbe EXCEPT !.fn = "normalizeFlashcards", !.cardsObject = cardsObject]

Probes ==
  {PageProbe(rawSelection, rawBody) :
     rawSelection \in PageSelections, rawBody \in PageBodies}
  \cup {CardsProbe(cardsObject) : cardsObject \in CardsObjects}
  \cup {[NoProbe EXCEPT
           !.fn = "renderMetadata",
           !.payload = Object(NoText, NoText, NoCards, rating, hierarchy,
                              NoParts),
           !.contextInfo = [text |-> Short, truncated |-> truncated,
                            usedSelection |-> usedSelection]] :
          rating \in RatingValues, hierarchy \in HierarchyValues,
          truncated \in BOOLEAN, usedSelection \in BOOLEAN}
  \cup {[NoProbe EXCEPT
           !.fn = "buildPrompt",
           !.action = action,
           !.contextInfo = NormalizeContext(InjectedFunc(rawSelection,
                                                         rawBody))] :
          action \in Actions, rawSelection \in {<<>>, Short, Long},
          rawBody \in {Padded, Long}}
  \cup {[NoProbe EXCEPT !.fn = "parseMarkdown", !.lines = lines] :
          lines \in MarkdownResponses}

-----------------------------------------------------------------------------
(* Initial state: the popup script has run init() *)

Init ==
  /\ variant \in Variants
  /\ runs = [r \in RunIds |-> IdleRun]
  /\ buttonsDisabled = FALSE
  /\ statusEl =
       (CASE variant = "local" ->
               setStatus("Highlight what matters or just run it on the full page.",
                         FALSE, FALSE)
          [] variant = "paste" ->
               setStatus("Paste your Gemini API key and click Load key to get started.",
                         FALSE, FALSE)
          [] variant = "env" -> setStatus("", FALSE, FALSE))
  /\ resultEl = NoResult
  /\ deck = NoDeck
  /\ metadataEl = ClearedMetadata
  /\ contextSection = [hidden |-> TRUE, preview |-> <<>>, heading |-> "",
                       from |-> 0]
  /\ envApiKeyPromise =
       (IF variant = "env" THEN getEnvApiKey(NoPromise) ELSE NoPromise)
  /\ cachedApiKey = <<>>
  /\ unhandled = FALSE
  /\ lastOp = "init"
  /\ lastArg = 0
  /\ hierarchyModal = NoModal
  /\ probe = NoProbe

-----------------------------------------------------------------------------
(* Generation pipeline *)

\* click on the generate button (local) / on an action button (env, paste).
\* In env the handler first awaits the .env promise: while that promise is
\* pending the invocation is parked at "key" with the buttons still enabled;
\* once it is resolved, and in paste (resolveApiKey returns the cached key),
\* the await takes microtasks only and no event comes in between.
Click(r) ==
  /\ IsNext(r)
  /\ ~buttonsDisabled
  /\ LET promise == IF variant = "env" THEN getEnvApiKey(envApiKeyPromise)
                     ELSE envApiKeyPromise
         step ==
           CASE variant = "local" -> EnterTry(runs[r])
             [] variant = "paste" -> WithKey(runs[r], Trim(cachedApiKey))
             [] variant = "env" ->
                  IF promise.state = "pending"
                  THEN [run |-> [runs[r] EXCEPT !.pc = "key"],
                        status |-> statusEl,
                        disabled |-> buttonsDisabled]
                  ELSE WithKey([runs[r] EXCEPT !.envKey = promise.value],
                               Trim(promise.value))
     IN /\ envApiKeyPromise' = promise
        /\ runs' = [Live EXCEPT ![r] = step.run]
        /\ statusEl' = step.status
        /\ buttonsDisabled' = step.disabled
  /\ lastOp' = "click"
  /\ lastArg' = 0
  /\ UNCHANGED <<hierarchyModal, probe>>
  /\ UNCHANGED <<variant, resultEl, deck, metadataEl, contextSection,
                 cachedApiKey, unhandled>>

\* values fetchEnvApiKey may resolve with: "" (missing file, no key line),
\* a key, or a blank left by a quoted blank value
EnvKeys == {<<>>, <<" ">>, <<"K">>}

\* the .env promise resolves: init() continues, then every invocation
\* parked at "key" continues, in click order, up to its next await
EnvKeyResolved(value) ==
  /\ variant = "env"
  /\ envApiKeyPromise.state = "pending"
  /\ envApiKeyPromise' = [envApiKeyPromise EXCEPT !.state = "resolved",
                                                 !.value = value]
  /\ LET parked == {r \in RunIds : runs[r].pc = "key"}
         initStatus ==
           IF value # <<>>
           THEN setStatus("Ready! Your Gemini key was loaded from extension/.env. Highlight text for a tighter focus.",
                          FALSE, FALSE)
           ELSE setStatus("Add your Gemini API key to extension/.env before generating.",
                          FALSE, FALSE)
     IN /\ runs' = [r \in RunIds |->
                      IF r \in parked
                      THEN WithKey([runs[r] EXCEPT !.envKey = value],
                                   Trim(value)).run
                      ELSE Live[r]]
        /\ statusEl' =
             IF parked = {} THEN initStatus
             ELSE WithKey(runs[CHOOSE r \in parked : TRUE], Trim(value)).status
        /\ buttonsDisabled' =
             IF parked = {} THEN buttonsDisabled
             ELSE WithKey(runs[CHOOSE r \in parked : TRUE], Trim(value)).disabled
  /\ lastOp' = "envKey"
  /\ lastArg' = 0
  /\ UNCHANGED <<hierarchyModal, probe>>
  /\ UNCHANGED <<variant, resultEl, deck, metadataEl, contextSection,
                 cachedApiKey, unhandled>>

\* inputs of the key field (paste)
KeyInputs == {<<>>, <<" ">>, <<" ", "K">>}

\* handleApiKeySubmit (paste)
ApiKeySubmit(input) ==
  /\ variant = "paste"
  /\ LET value == Trim(input) IN
     IF value = <<>>
     THEN /\ statusEl' = setStatus("Paste your Gemini API key first.",
                                   FALSE, TRUE)
          /\ UNCHANGED cachedApiKey
     ELSE /\ cachedApiKey' = value
          /\ statusEl' =
               setStatus("Gemini key loaded! Highlight text for a tighter focus.",
                         FALSE, FALSE)
  /\ runs' = Live
  /\ lastOp' = "keySubmit"
  /\ lastArg' = 0
  /\ UNCHANGED <<hierarchyModal, probe>>
  /\ UNCHANGED <<variant, buttonsDisabled, resultEl, deck, metadataEl,
                 contextSection, envApiKeyPromise, unhandled>>

\* chrome.tabs.query settles
TabsResolved(r) ==
  /\ runs[r].pc = "tabs"
  /\ \/ /\ runs' = [Live EXCEPT ![r].pc = "inject"]
        /\ UNCHANGED <<statusEl, buttonsDisabled, unhandled>>
     \/ Fail(r, runs[r], "notab", MsgNoTab)
     \/ \E m \in PlatformMessages : Fail(r, runs[r], "tabs", m)
  /\ lastOp' = "tabs"
  /\ lastArg' = 0
  /\ UNCHANGED <<hierarchyModal, probe>>
  /\ UNCHANGED <<variant, resultEl, deck, metadataEl, contextSection,
                 envApiKeyPromise, cachedApiKey>>

\* contextInfo is read after the backend call by the local showResult only
Kept(contextInfo) == IF variant = "local" THEN contextInfo ELSE NoContext

\* chrome.scripting.executeScript settles; the rest of collectPageContext
\* and handleGenerate up to the fetch
InjectResolved(r) ==
  /\ runs[r].pc = "inject"
  /\ \/ /\ Fail(r, runs[r], "inject", MsgInjectFailed)
        /\ UNCHANGED contextSection
     \/ \E rawSelection \in RawSelections, rawBody \in RawBodies :
          LET contextInfo ==
                NormalizeContext(InjectedFunc(rawSelection, rawBody))
              run == [runs[r] EXCEPT
                        !.bothEmpty = /\ TrimText(rawSelection) = <<>>
                                      /\ TrimText(rawBody) = <<>>]
          IN IF contextInfo.text = <<>>
             THEN /\ Fail(r, run, "empty", MsgEmptyContext)
                  /\ UNCHANGED contextSection
             ELSE /\ runs' = [Live EXCEPT ![r] =
                                [run EXCEPT !.pc = "fetch",
                                            !.ctx = Kept(contextInfo),
                                            !.called = TRUE]]
                  /\ contextSection' =
                       IF variant = "local" THEN contextSection
                       ELSE showContext(contextInfo, r)
                  /\ statusEl' = setStatus(MsgTalking(variant), TRUE, FALSE)
                  /\ UNCHANGED <<buttonsDisabled, unhandled>>
  /\ lastOp' = "inject"
  /\ lastArg' = 0
  /\ UNCHANGED <<hierarchyModal, probe>>
  /\ UNCHANGED <<variant, resultEl, deck, metadataEl, envApiKeyPromise,
                 cachedApiKey>>

\* fetch settles: a network failure is rethrown with a fixed message by the
\* local callGemini and propagates as it is from the env/paste callGemini
FetchResolved(r) ==
  /\ runs[r].pc = "fetch"
  /\ \/ \E m \in PlatformMessages :
          Fail(r, runs[r], "fetch",
               IF variant = "local" THEN MsgUnreachable ELSE m)
     \/ \E status \in HttpStatuses :
          /\ runs' = [Live EXCEPT ![r].pc = "json", ![r].httpStatus = status]
          /\ UNCHANGED <<statusEl, buttonsDisabled, unhandled>>
  /\ lastOp' = "fetch"
  /\ lastArg' = 0
  /\ UNCHANGED <<hierarchyModal, probe>>
  /\ UNCHANGED <<variant, resultEl, deck, metadataEl, contextSection,
                 envApiKeyPromise, cachedApiKey>>

\* showResult leaving the panel of the previous response in place when the
\* new response carries no card
showResultKeepPanel(v, payload, contextInfo, r) ==
  IF v = "local"
  THEN LET cards == normalizeFlashcards(payload.cards) IN
       IF cards = <<>>
       THEN [result |-> [kind |-> "empty", message |-> MsgNoCards,
                         text |-> <<>>, hasFlashcards |-> FALSE,
                         sectionHidden |-> FALSE, from |-> r],
             deck |-> NoDeck,
             metadata |-> metadataEl]
       ELSE [result |-> [kind |-> "deck", message |-> "", text |-> <<>>,
                         hasFlashcards |-> TRUE, sectionHidden |-> FALSE,
                         from |-> r],
             deck |-> renderFlashcards(cards),
             metadata |-> renderMetadata(payload, contextInfo, r)]
  ELSE [result |-> [kind |-> "text", message |-> "",
                    text |-> candidateText(payload),
                    hasFlashcards |-> FALSE, sectionHidden |-> FALSE,
                    from |-> r],
        deck |-> deck,
        metadata |-> metadataEl]

\* what showResult leaves on screen: #result, the carousel, #metadata
\* local: showResult(payload, contextInfo, cardCount)
\* env, paste: showResult(output)
showResult(v, payload, contextInfo, r) ==
  IF v = "local"
  THEN LET cards == normalizeFlashcards(payload.cards) IN
       IF cards = <<>>
       THEN [result |-> [kind |-> "empty", message |-> MsgNoCards,
                         text |-> <<>>, hasFlashcards |-> FALSE,
                         sectionHidden |-> FALSE, from |-> r],
             deck |-> NoDeck,
             metadata |-> renderMetadata(payload, contextInfo, r)]
       ELSE [result |-> [kind |-> "deck", message |-> "", text |-> <<>>,
                         hasFlashcards |-> TRUE, sectionHidden |-> FALSE,
                         from |-> r],
             deck |-> renderFlashcards(cards),
             metadata |-> renderMetadata(payload, contextInfo, r)]
  ELSE [result |-> [kind |-> "text", message |-> "",
                    text |-> candidateText(payload),
                    hasFlashcards |-> FALSE, sectionHidden |-> FALSE,
                    from |-> r],
        deck |-> deck,
        metadata |-> metadataEl]

\* the response is successful, its body is absent, unparsable or an object,
\* and it carries no card with a front (local) / no output text (env, paste)
YieldsNothing(v, payload, status) ==
  /\ IsOk(status)
  /\ IsObject(payload)
  /\ IF v = "local" THEN normalizeFlashcards(payload.cards) = <<>>
     ELSE candidateText(payload) = <<>>

\* response.json() settles (a body that does not parse gives {}); the rest
\* of callGemini and of handleGenerate
JsonResolved(r) ==
  /\ runs[r].pc = "json"
  /\ \E parses \in BOOLEAN, body \in Payloads(variant) :
       LET payload == IF parses THEN body ELSE EmptyObject
           status == runs[r].httpStatus
           run == [runs[r] EXCEPT
                     !.detail = IF IsObject(payload) THEN payload.detail
                                ELSE NoText,
                     !.emptyOk = YieldsNothing(variant, payload, status)]
       IN IF ~IsOk(status)
          THEN /\ Fail(r, run, "status",
                       errorMessage(variant, payload, status))
               /\ UNCHANGED <<resultEl, deck, metadataEl>>
          ELSE IF \/ variant = "local" /\ ~IsObject(payload)
                  \/ variant # "local" /\ candidateText(payload) = <<>>
          THEN /\ Fail(r, run, "payload",
                       IF variant = "local" THEN MsgUnexpected
                       ELSE MsgEmptyResponse)
               /\ UNCHANGED <<resultEl, deck, metadataEl>>
          ELSE LET shown == showResult(variant, payload, runs[r].ctx, r) IN
               /\ resultEl' = shown.result
               /\ deck' = shown.deck
               /\ metadataEl' = shown.metadata
               /\ statusEl' = setStatus(MsgDone(variant), FALSE, FALSE)
               /\ buttonsDisabled' = finallyDisabled("success")
               /\ runs' = [Live EXCEPT ![r] = Ended(run, "success", "")]
               /\ UNCHANGED unhandled
  /\ lastOp' = "json"
  /\ lastArg' = 0
  /\ UNCHANGED <<hierarchyModal, probe>>
  /\ UNCHANGED <<variant, contextSection, envApiKeyPromise, cachedApiKey>>

-----------------------------------------------------------------------------
(* Carousel events (local) *)

DeckShown == variant = "local" /\ resultEl.kind = "deck"

DeckFrame == <<variant, buttonsDisabled, statusEl, resultEl,
               metadataEl, contextSection, envApiKeyPromise, cachedApiKey,
               unhandled>>

\* prevButton click
PrevClick ==
  /\ DeckShown
  /\ ~deck.prevDisabled
  /\ deck' = IF canPrev(deck) THEN updateCard(deck, deck.currentIndex - 1)
             ELSE deck
  /\ lastOp' = "prev"
  /\ lastArg' = 0
  /\ UNCHANGED <<hierarchyModal, probe>>
  /\ runs' = Live
  /\ UNCHANGED DeckFrame

\* nextButton click
NextClick ==
  /\ DeckShown
  /\ ~deck.nextDisabled
  /\ deck' = IF canNext(deck) THEN updateCard(deck, deck.currentIndex + 1)
             ELSE deck
  /\ lastOp' = "next"
  /\ lastArg' = 0
  /\ UNCHANGED <<hierarchyModal, probe>>
  /\ runs' = Live
  /\ UNCHANGED DeckFrame

\* click on the dot of card `index`
DotClick(index) ==
  /\ DeckShown
  /\ deck' = updateCard(deck, index)
  /\ lastOp' = "jumpTo"
  /\ lastArg' = index
  /\ UNCHANGED <<hierarchyModal, probe>>
  /\ runs' = Live
  /\ UNCHANGED DeckFrame

\* click on the card
CardClick ==
  /\ DeckShown
  /\ deck' = toggleFlip(deck)
  /\ lastOp' = "toggleFlip"
  /\ lastArg' = 0
  /\ UNCHANGED <<hierarchyModal, probe>>
  /\ runs' = Live
  /\ UNCHANGED DeckFrame

-----------------------------------------------------------------------------
(* Outline overlay events (local) *)

\* the handler of one overlay event has run
ModalEvent(op, modal) ==
  /\ hierarchyModal' = modal
  /\ lastOp' = op
  /\ lastArg' = 0
  /\ runs' = Live
  /\ UNCHANGED <<variant, buttonsDisabled, statusEl, resultEl, deck,
                 metadataEl, contextSection, envApiKeyPromise, cachedApiKey,
                 unhandled, probe>>

\* click on the "View structure" button of the metadata panel
ViewStructureClick ==
  /\ variant = "local"
  /\ metadataEl.hasHierarchyCard
  /\ ModalEvent("viewStructure",
                showHierarchyModal(hierarchyModal, metadataEl.hierarchy,
                                   metadataEl.jobNote))

\* click on the close button of an attached overlay (onClose); the click
\* bubbles to the overlay, where onOverlayClick sees another target
CloseButtonClick ==
  /\ hierarchyModal.overlays > 0
  /\ ModalEvent("closeButton", closeHierarchyModal(hierarchyModal))

\* click inside an attached overlay, on the overlay itself or on the modal
\* (onOverlayClick)
OverlayClick(target) ==
  /\ hierarchyModal.overlays > 0
  /\ ModalEvent(target,
                IF target = "overlay" THEN closeHierarchyModal(hierarchyModal)
                ELSE hierarchyModal)

\* a key goes down while handleHierarchyModalKeydown is registered
Keydown(key) ==
  /\ hierarchyModal.keydown
  /\ ModalEvent(key,
                IF key = "Escape" THEN closeHierarchyModal(hierarchyModal)
                ELSE hierarchyModal)

-----------------------------------------------------------------------------

Next ==
  \/ \E r \in RunIds : Click(r)
  \/ \E value \in EnvKeys : EnvKeyResolved(value)
  \/ \E input \in KeyInputs : ApiKeySubmit(input)
  \/ \E r \in RunIds : TabsResolved(r)
  \/ \E r \in RunIds : InjectResolved(r)
  \/ \E r \in RunIds : FetchResolved(r)
  \/ \E r \in RunIds : JsonResolved(r)
  \/ PrevClick
  \/ NextClick
  \/ \E index \in 0..(Len(deck.cards) - 1) : DotClick(index)
  \/ CardClick

Spec == Init /\ [][Next]_vars

\* the popup with the events of the outline overlay as well
ModalNext ==
  \/ Next
  \/ ViewStructureClick
  \/ CloseButtonClick
  \/ \E target \in {"overlay", "modal"} : OverlayClick(target)
  \/ \E key \in {"Escape", "Tab"} : Keydown(key)

ModalSpec == Init /\ [][ModalNext]_vars

\* the popup as init() leaves it, with one normalizer call about to be made
PureInit ==
  /\ variant = "local"
  /\ runs = [r \in RunIds |-> IdleRun]
  /\ buttonsDisabled = FALSE
  /\ statusEl = setStatus("", FALSE, FALSE)
  /\ resultEl = NoResult
  /\ deck = NoDeck
  /\ metadataEl = ClearedMetadata
  /\ contextSection = [hidden |-> TRUE, preview |-> <<>>, heading |-> "",
                       from |-> 0]
  /\ envApiKeyPromise = NoPromise
  /\ cachedApiKey = <<>>
  /\ unhandled = FALSE
  /\ lastOp = "init"
  /\ lastArg = 0
  /\ hierarchyModal = NoModal
  /\ probe \in Probes

PureFrame == <<variant, runs, buttonsDisabled, statusEl, resultEl, deck,
               metadataEl, contextSection, envApiKeyPromise, cachedApiKey,
               unhandled, lastOp, lastArg, hierarchyModal>>

\* collectPageContext on a page holding probe.selection and probe.body
CollectPageContext ==
  /\ probe.fn = "collectPageContext"
  /\ ~probe.done
  /\ probe' = [probe EXCEPT
                 !.context = NormalizeContext(InjectedFunc(probe.selection,
                                                           probe.body)),
                 !.done = TRUE]
  /\ UNCHANGED PureFrame

\* normalizeFlashcards(probe.cardsObject)
NormalizeFlashcards ==
  /\ probe.fn = "normalizeFlashcards"
  /\ ~probe.done
  /\ probe' = [probe EXCEPT !.cards = normalizeFlashcards(probe.cardsObject),
                            !.done = TRUE]
  /\ UNCHANGED PureFrame

\* renderMetadata(probe.payload, probe.contextInfo)
RenderMetadata ==
  /\ probe.fn = "renderMetadata"
  /\ ~probe.done
  /\ probe' = [probe EXCEPT
                 !.metadata = renderMetadata(probe.payload,
                                             probe.contextInfo, 1),
                 !.done = TRUE]
  /\ UNCHANGED PureFrame

\* buildPrompt(probe.action, probe.contextInfo)
BuildPrompt ==
  /\ probe.fn = "buildPrompt"
  /\ ~probe.done
  /\ probe' = [probe EXCEPT
                 !.prompt = buildPrompt(probe.action, probe.contextInfo),
                 !.done = TRUE]
  /\ UNCHANGED PureFrame

\* the Markdown parser applied to probe.lines
ParseMarkdown ==
  /\ probe.fn = "parseMarkdown"
  /\ ~probe.done
  /\ probe' = [probe EXCEPT !.flashcards = parseMarkdown(probe.lines),
                            !.done = TRUE]
  /\ UNCHANGED PureFrame

PureNext ==
  \/ CollectPageContext
  \/ NormalizeFlashcards
  \/ RenderMetadata
  \/ BuildPrompt
  \/ ParseMarkdown

PureSpec == PureInit /\ [][PureNext]_vars

\* an awaited external call settles
Settle ==
  \/ \E value \in EnvKeys : EnvKeyResolved(value)
  \/ \E r \in RunIds :
       TabsResolved(r) \/ InjectResolved(r) \/ FetchResolved(r)
         \/ JsonResolved(r)

\* no awaited external call stays pending for ever: while one is pending,
\* one of the pending calls eventually settles
FairSpec == Spec /\ WF_vars(Settle)

TypeOK ==
  /\ variant \in Variants
  /\ buttonsDisabled \in BOOLEAN
  /\ unhandled \in BOOLEAN
  /\ \A r \in RunIds :
       runs[r].pc \in {"idle", "key", "tabs", "inject", "fetch", "json", "done"}

-----------------------------------------------------------------------------
(* Properties *)

\* an invocation that has entered the pipeline and is suspended on page
\* inspection or on the backend
Running(r) == runs[r].pc \in {"tabs", "inject", "fetch", "json"}

\* the step ends invocation r
Ends(r) == runs[r].pc # "done" /\ runs'[r].pc = "done"

\* C1: with a non-empty deck on screen, after any sequence of next, prev,
\* jumpTo and toggleFlip events the current index is within
\* [0, cards.length - 1].
C1_IndexInRange ==
  deck.cards # <<>> =>
    /\ deck.currentIndex >= 0
    /\ deck.currentIndex <= Len(deck.cards) - 1

\* next has brought a deck of three cards to its last card
C1_Witness ==
  /\ DeckShown
  /\ lastOp = "next"
  /\ Len(deck.cards) = 3
  /\ deck.currentIndex = 2

\* C2: every step that changes the current index leaves the card unflipped.
C2_IndexChangeUnflips ==
  [][deck'.currentIndex # deck.currentIndex => ~deck'.isFlipped]_vars

\* prev has moved the deck back from a later card
C2_Witness ==
  /\ DeckShown
  /\ lastOp = "prev"
  /\ deck.currentIndex = 1
  /\ ~deck.isFlipped

\* C3: at most one generation pipeline run is in flight at a time.
C3_SingleRun == Cardinality({r \in RunIds : Running(r)}) <= 1

\* C4: the generate controls are disabled at every suspension point of a
\* pipeline run.
C4_DisabledWhileRunning == \A r \in RunIds : Running(r) => buttonsDisabled

\* C5: every started invocation eventually ends, in every outcome, with the
\* generate controls enabled.
C5_EventuallyEnabled ==
  \A r \in RunIds :
    InFlight(r) ~> (runs[r].pc = "done" /\ ~buttonsDisabled)

\* an invocation has just failed on the backend call and the controls are
\* enabled again
C5_Witness ==
  \E r \in RunIds :
    /\ runs[r].outcome = "failed"
    /\ runs[r].called
    /\ lastOp \in {"fetch", "json"}
    /\ ~buttonsDisabled

\* C6: after a failed run nothing on display (result, deck, metadata panel,
\* context preview) comes from that run.
C6_NoPartialState ==
  \A r \in RunIds :
    runs[r].outcome = "failed" =>
      /\ resultEl.from # r
      /\ metadataEl.from # r
      /\ contextSection.from # r

\* C7: a failure raised inside a run never escapes handleGenerate; the step
\* that ends the run leaves exactly the error-flagged message of that
\* failure in the status line, without loading indicator.
C7_FailureCaught ==
  [][\A r \in RunIds :
       (Ends(r) /\ runs'[r].outcome \notin {"success", "nokey"}) =>
         /\ runs'[r].outcome = "failed"
         /\ ~unhandled'
         /\ runs'[r].err # ""
         /\ statusEl' = [text |-> runs'[r].err, loading |-> FALSE,
                         error |-> TRUE, hidden |-> FALSE]]_vars

\* page inspection has just failed and the status line shows the error
C7_Witness ==
  \E r \in RunIds :
    /\ runs[r].outcome = "failed"
    /\ lastOp = "tabs"
    /\ statusEl.error
    /\ ~statusEl.loading
    /\ statusEl.text = runs[r].err

\* C8: a successful response that yields nothing (no card, no text, an empty
\* or absent body) ends the run as a success, not as a failure.
C8_EmptyIsNotAnError ==
  \A r \in RunIds :
    (runs[r].pc = "done" /\ runs[r].emptyOk) => runs[r].outcome = "success"

\* C9: when the trimmed selection and the trimmed body are both empty the
\* run fails with the empty-context error and the backend is not called.
C9_EmptyContextFails ==
  \A r \in RunIds :
    runs[r].bothEmpty =>
      /\ runs[r].outcome = "failed"
      /\ runs[r].err = MsgEmptyContext
      /\ ~runs[r].called

\* page inspection has just returned a blank selection and a blank body
C9_Witness ==
  \E r \in RunIds :
    /\ runs[r].bothEmpty
    /\ runs[r].outcome = "failed"
    /\ lastOp = "inject"

\* invocation r of the structured build got a non-success status
Rejected(r) ==
  /\ variant = "local"
  /\ runs[r].pc = "done"
  /\ runs[r].httpStatus # 0
  /\ ~IsOk(runs[r].httpStatus)

GenericError(r) ==
  "Local API error (" \o ToString(runs[r].httpStatus) \o ")"

\* C10 as stated: on a non-success status the run fails with the body's
\* detail whenever the body has one, else with the generic message carrying
\* the status code; the result pane is not re-rendered.
C10_DetailIfPresent ==
  \A r \in RunIds :
    Rejected(r) =>
      /\ runs[r].outcome = "failed"
      /\ runs[r].err = IF runs[r].detail.present THEN runs[r].detail.text
                       ELSE GenericError(r)
      /\ resultEl.from # r

\* C10 amended: the detail is the message when it is present and not empty;
\* an absent or empty detail gives the generic message.
C10_DetailIfNonEmpty ==
  \A r \in RunIds :
    Rejected(r) =>
      /\ runs[r].outcome = "failed"
      /\ runs[r].err = IF /\ runs[r].detail.present
                          /\ runs[r].detail.text # ""
                       THEN runs[r].detail.text
                       ELSE GenericError(r)
      /\ resultEl.from # r

\* a non-success response with a detail has just failed the run
C10_Witness ==
  \E r \in RunIds :
    /\ Rejected(r)
    /\ runs[r].detail = Text("Quota exceeded")
    /\ statusEl.text = "Quota exceeded"
    /\ lastOp = "json"

\* C11: while a non-empty deck is shown there is one position indicator per
\* card, exactly one of them is active, and it is the one of the current
\* index.
C11_OneActiveDot ==
  DeckShown =>
    /\ Len(deck.dots) = Len(deck.cards)
    /\ {dotIndex \in 1..Len(deck.dots) : deck.dots[dotIndex]}
         = {deck.currentIndex + 1}

\* a dot click has moved the deck from another card to its last card
C11_Witness ==
  /\ DeckShown
  /\ lastOp = "jumpTo"
  /\ Len(deck.cards) = 3
  /\ deck.currentIndex = 2
  /\ deck.dots = <<FALSE, FALSE, TRUE>>

\* the step ends invocation r with a rendered result of the structured build
Loads(r) ==
  /\ variant = "local"
  /\ runs[r].pc = "json"
  /\ runs'[r].outcome = "success"

\* C12: loading the cards of a successful response, whatever was shown before
\* (nothing, the empty-state message, or a deck at any card and either
\* face), shows the first card front side up when there are cards, and no
\* deck when there are none.
C12_LoadStartsAtFirstCard ==
  [][\A r \in RunIds :
       Loads(r) =>
         IF runs'[r].emptyOk
         THEN resultEl'.kind = "empty" /\ deck' = NoDeck
         ELSE /\ resultEl'.kind = "deck"
              /\ deck'.cards # <<>>
              /\ deck'.currentIndex = 0
              /\ ~deck'.isFlipped
              /\ deck'.dots = [dotIndex \in 1..Len(deck'.cards) |->
                                 dotIndex = 1]
              /\ deck'.prevDisabled
              /\ deck'.nextDisabled = (Len(deck'.cards) = 1)]_vars

\* the second invocation has loaded a three-card deck
C12_Witness ==
  /\ DeckShown
  /\ lastOp = "json"
  /\ resultEl.from = 2
  /\ Len(deck.cards) = 3
  /\ deck.currentIndex = 0
  /\ ~deck.isFlipped

\* C13: a click on the next (previous) control moves the deck one card
\* forward (back) when there is a card there and otherwise changes nothing,
\* and the next (previous) control is disabled exactly at the last (first)
\* card.
C13_NavigationStopsAtEnds ==
  [][/\ lastOp' = "next" =>
          IF deck.currentIndex + 1 < Len(deck.cards)
          THEN /\ deck'.currentIndex = deck.currentIndex + 1
               /\ deck'.cards = deck.cards
          ELSE deck' = deck
     /\ lastOp' = "prev" =>
          IF deck.currentIndex > 0
          THEN /\ deck'.currentIndex = deck.currentIndex - 1
               /\ deck'.cards = deck.cards
          ELSE deck' = deck
     /\ DeckShown' =>
          /\ deck'.nextDisabled = (deck'.currentIndex = Len(deck'.cards) - 1)
          /\ deck'.prevDisabled = (deck'.currentIndex = 0)]_vars

\* the next control has brought a three-card deck to its last card, where
\* it is disabled
C13_Witness ==
  /\ DeckShown
  /\ lastOp = "next"
  /\ Len(deck.cards) = 3
  /\ deck.currentIndex = 2
  /\ deck.nextDisabled
  /\ ~deck.prevDisabled

\* C14: a click on the card inverts its face and leaves the cards, the
\* current index, the indicators and the two navigation controls as they
\* were; a second click therefore restores the state before the first.
C14_ToggleFlipsOnly ==
  [][lastOp' = "toggleFlip" =>
       /\ deck'.isFlipped = ~deck.isFlipped
       /\ deck'.cards = deck.cards
       /\ deck'.currentIndex = deck.currentIndex
       /\ deck'.dots = deck.dots
       /\ deck'.prevDisabled = deck.prevDisabled
       /\ deck'.nextDisabled = deck.nextDisabled
       /\ toggleFlip(deck') = deck]_vars

\* the middle card of a deck has been flipped and flipped back
C14_Witness ==
  /\ DeckShown
  /\ lastOp = "toggleFlip"
  /\ ~deck.isFlipped
  /\ deck.currentIndex = 1

\* C15: while a deck is shown the indicator of every card can be clicked,
\* that of the current card included, and a click on the indicator of card
\* j leaves the deck at card j, front side up, with the same cards.
C15_JumpShowsFront ==
  [][/\ DeckShown =>
          \A j \in 0..(Len(deck.cards) - 1) : ENABLED DotClick(j)
     /\ lastOp' = "jumpTo" =>
          /\ lastArg' \in 0..(Len(deck.cards) - 1)
          /\ deck'.currentIndex = lastArg'
          /\ ~deck'.isFlipped
          /\ deck'.cards = deck.cards]_vars

\* the indicator of the middle card has been clicked and the deck shows the
\* front of that card
C15_Witness ==
  /\ DeckShown
  /\ lastOp = "jumpTo"
  /\ lastArg = 1
  /\ deck.currentIndex = 1
  /\ ~deck.isFlipped

\* the selection and the body as collectPageContext receives them
Selection == InjectedFunc(probe.selection, probe.body).selection
Body == InjectedFunc(probe.selection, probe.body).body

\* the text collectPageContext works on: the selection, else the body
Source == IF Selection # <<>> THEN Selection ELSE Body

Collected == probe.fn = "collectPageContext" /\ probe.done

\* C16 as stated: whenever the selection is not empty (after trimming), the
\* page context is marked as coming from the selection and its text is the
\* trimmed selection, whatever the body holds.
C16_SelectionWins ==
  Collected /\ TrimText(probe.selection) # <<>> =>
    /\ probe.context.usedSelection
    /\ probe.context.text = TrimText(probe.selection)

\* C16, amended: whenever the selection is not empty after trimming, the
\* page context is marked as coming from the selection, whatever the body
\* holds; its text is the trimmed selection when that has at most
\* MAX_CONTEXT_LENGTH characters, and else the first MAX_CONTEXT_LENGTH
\* characters of the trimmed selection followed by the truncation notice.
C16_SelectionWinsUpToLimit ==
  Collected /\ TrimText(probe.selection) # <<>> =>
    /\ probe.context.usedSelection
    /\ probe.context.text =
         IF TextLen(TrimText(probe.selection)) <= MAX_CONTEXT_LENGTH
         THEN TrimText(probe.selection)
         ELSE SliceText(TrimText(probe.selection), MAX_CONTEXT_LENGTH)
                \o TruncationNotice

\* a padded selection has been taken over a body longer than the limit
C16_Witness ==
  /\ Collected
  /\ probe.selection = PaddedSelection
  /\ probe.body = Long
  /\ probe.context.usedSelection
  /\ probe.context.text = <<Run("s", 2)>>

\* C17 as stated: the text of every page context has at most
\* MAX_CONTEXT_LENGTH characters.
C17_TextWithinLimit ==
  Collected => TextLen(probe.context.text) <= MAX_CONTEXT_LENGTH

\* C17, amended: the text of every page context has at most
\* MAX_CONTEXT_LENGTH characters plus, when it is truncated, the characters
\* of the truncation notice.
C17_TextWithinLimitPlusNotice ==
  Collected =>
    TextLen(probe.context.text) <=
      MAX_CONTEXT_LENGTH
        + (IF probe.context.truncated THEN TextLen(TruncationNotice) ELSE 0)

\* a body of MAX_CONTEXT_LENGTH + 1 characters has been collected
C17_Witness ==
  /\ Collected
  /\ probe.selection = <<>>
  /\ probe.body = Long
  /\ probe.context.truncated
  /\ TextLen(probe.context.text)
       = MAX_CONTEXT_LENGTH + TextLen(TruncationNotice)

\* C18: a page context is truncated exactly when the text it was made from
\* (the trimmed selection, else the normalized body) has more than
\* MAX_CONTEXT_LENGTH characters; its text is then the first
\* MAX_CONTEXT_LENGTH characters of that text followed by the notice, and
\* otherwise that text as it is.
C18_TruncatedIffTooLong ==
  Collected =>
    /\ probe.context.truncated = (TextLen(Source) > MAX_CONTEXT_LENGTH)
    /\ probe.context.text =
         IF TextLen(Source) > MAX_CONTEXT_LENGTH
         THEN SliceText(Source, MAX_CONTEXT_LENGTH) \o TruncationNotice
         ELSE Source

\* a selection of exactly MAX_CONTEXT_LENGTH characters after trimming has
\* been collected untruncated
C18_Witness ==
  /\ Collected
  /\ probe.selection = AtLimitPadded
  /\ ~probe.context.truncated
  /\ TextLen(probe.context.text) = MAX_CONTEXT_LENGTH

Normalized == probe.fn = "normalizeFlashcards" /\ probe.done

\* a field that is absent, null, or a string of whitespace only
IsBlank(value) ==
  \/ value.t \in {"undef", "null"}
  \/ value.t = "str" /\ \A i \in 1..Len(value.s) : IsSpace(value.s[i])

\* C19: the structured normalizer returns no card for an entry whose front
\* is absent, null, empty or whitespace only, and the question of every card
\* it returns has a character that is not whitespace.
C19_NoCardWithoutQuestion ==
  Normalized =>
    /\ \A k \in 1..Len(probe.cards) :
         \E i \in 1..Len(probe.cards[k].front) :
           ~IsSpace(probe.cards[k].front[i])
    /\ \A e \in 1..Len(probe.cardsObject.entries) :
         IsBlank(probe.cardsObject.entries[e].front) =>
           \A k \in 1..Len(probe.cards) :
             probe.cards[k].id # probe.cardsObject.entries[e].id

\* of two entries the one with a whitespace-only front has been dropped and
\* the other kept with its front trimmed
C19_Witness ==
  /\ Normalized
  /\ Len(probe.cardsObject.entries) = 2
  /\ probe.cardsObject.entries[1].front = Str(<<" ", "\n">>)
  /\ Len(probe.cards) = 1
  /\ probe.cards[1].id = "2"
  /\ probe.cards[1].front = <<"Q">>

\* C20: no card the structured normalizer returns has an empty answer (an
\* entry kept with an absent, null, empty or whitespace-only back is given
\* the placeholder answer).
C20_NoEmptyAnswer ==
  Normalized =>
    \A k \in 1..Len(probe.cards) : probe.cards[k].back # <<>>

\* C21: at most one outline overlay is attached to the document, and it is
\* the one activeHierarchyModal holds; showing an overlay while one is open
\* leaves one.
C21_AtMostOneOverlay ==
  /\ hierarchyModal.overlays <= 1
  /\ hierarchyModal.active = (hierarchyModal.overlays = 1)

\* an overlay is open after a click on "View structure"
C21_Witness ==
  /\ lastOp = "viewStructure"
  /\ hierarchyModal.overlays = 1
  /\ hierarchyModal.active

\* C22: a click on the close button, a click on the overlay background and
\* the Escape key each leave no overlay attached, activeHierarchyModal null
\* and the keydown listener removed; a click inside the modal and any other
\* key leave the overlay as it was.
C22_DismissalTearsDown ==
  [][/\ lastOp' \in {"closeButton", "overlay", "Escape"} =>
          hierarchyModal' = NoModal
     /\ lastOp' \in {"modal", "Tab"} =>
          hierarchyModal' = hierarchyModal]_vars

\* the Escape key has closed the overlay
C22_Witness ==
  /\ lastOp = "Escape"
  /\ hierarchyModal = NoModal

Rendered == probe.fn = "renderMetadata" /\ probe.done

\* the response holds no number as rating and no outline field
BareResponse ==
  /\ probe.payload.content_rating.t # "num"
  /\ probe.payload.information_hierarchy.t \in {"undef", "null"}

C24_RatingInRange ==
  Rendered =>
    /\ probe.metadata.hasRating => probe.payload.content_rating.t = "num"
    /\ probe.metadata.hasRating => probe.metadata.rating \in 0..10

Built == probe.fn = "buildPrompt" /\ probe.done

\* the positions of the pieces named `part` in the prompt built
PartsNamed(part) ==
  {k \in 1..Len(probe.prompt) : probe.prompt[k].part = part}

\* C25: the prompt holds the selection note exactly when the context was
\* taken from a selection and the truncation note exactly when the context
\* was truncated, for every task and every value of the other flag, and it
\* holds the context text, unchanged, once.
C25_NotesFollowFlags ==
  Built =>
    /\ (PartsNamed("selectionNote") # {}) = probe.contextInfo.usedSelection
    /\ (PartsNamed("truncationNote") # {}) = probe.contextInfo.truncated
    /\ Cardinality(PartsNamed("text")) = 1
    /\ \A k \in PartsNamed("text") :
         probe.prompt[k].text = probe.contextInfo.text

\* the quiz prompt for a truncated page body holds the truncation note only
C25_Witness ==
  /\ Built
  /\ probe.action = "quiz"
  /\ probe.contextInfo.truncated
  /\ ~probe.contextInfo.usedSelection
  /\ PartsNamed("truncationNote") # {}
  /\ PartsNamed("selectionNote") = {}

\* C26: for a task other than flashcards, quiz and summary no prompt is
\* built.
C26_UnsupportedTaskFails ==
  Built /\ probe.action \notin {"flashcards", "quiz", "summary"} =>
    probe.prompt = <<>>

Parsed == probe.fn = "parseMarkdown" /\ probe.done

C28_OrderAsSupplied ==
  Normalized =>
    LET HasFront(e) == ~IsBlank(e.front)
        supplied == SelectSeq(probe.cardsObject.entries, HasFront)
    IN /\ Len(probe.cards) = Len(supplied)
       /\ \A k \in 1..Len(probe.cards) : probe.cards[k].id = supplied[k].id

\* C29: when the outline field holds the marker phrase, in any letter case,
\* the outline shown is the trimmed text before the last occurrence of the
\* marker and the job note the trimmed text from there on; when it does
\* not, the outline is the whole trimmed text and the job note is empty.
C29_SplitAtLastMarker ==
  Rendered =>
    LET field == probe.payload.information_hierarchy
        raw == IF field.t = "str" THEN field.s ELSE <<>>
        lower == [i \in 1..Len(raw) |->
                    IF raw[i] = "N" THEN "n" ELSE IF raw[i] = "H" THEN "h"
                    ELSE raw[i]]
        hits == {i \in 0..Len(raw) :
                   /\ i + Len(Marker) <= Len(raw)
                   /\ SubSeq(lower, i + 1, i + Len(Marker)) = Marker}
        last == CHOOSE i \in hits : \A j \in hits : j <= i
    IN IF hits = {}
       THEN /\ probe.metadata.hierarchy = Trim(raw)
            /\ probe.metadata.jobNote = <<>>
       ELSE /\ probe.metadata.hierarchy = Trim(SubSeq(raw, 1, last))
            /\ probe.metadata.jobNote = Trim(SubSeq(raw, last + 1, Len(raw)))

\* a field holding the marker twice has been split at the second one
C29_Witness ==
  /\ Rendered
  /\ probe.payload.information_hierarchy =
       Str(OutlineWithNote \o <<"\n">> \o Marker \o <<" ", "y">>)
  /\ probe.metadata.hierarchy = OutlineWithNote
  /\ probe.metadata.jobNote = Marker \o <<" ", "y">>

\* C30: the description shown with a rating is the High depth text for a
\* rating of 8 or more, the Moderate depth text for 5 to 7, the Light
\* coverage text for 1 to 4 and "No rating available." for 0 and below.
C30_RatingBuckets ==
  Rendered /\ probe.metadata.hasRating =>
    LET rating == probe.payload.content_rating.n IN
    probe.metadata.description =
      CASE rating >= 8 -> "High depth content - great for learning."
        [] rating \in 5..7 -> "Moderate depth - useful but could go deeper."
        [] rating \in 1..4 -> "Light coverage - mostly surface-level info."
        [] rating <= 0 -> "No rating available."

\* a rating on the lower bound of the Moderate bucket has been described
C30_Witness ==
  /\ Rendered
  /\ probe.payload.content_rating = Num(5)
  /\ probe.metadata.hasRating
  /\ probe.metadata.description
       = "Moderate depth - useful but could go deeper."

\* C31: in every state of the popup.js build, whether no run, a later run
\* in flight or a failed later run followed the one on display, there is one
\* backend response and one page context such that the carousel holds the
\* cards of that response (the empty-state message standing for none) and
\* the metadata panel is what renderMetadata makes of that response and
\* that context, both rendered by the same invocation; before the first
\* response neither is on display.
C31_DeckAndPanelFromOneResponse ==
  variant = "local" =>
    IF resultEl.kind = "none"
    THEN metadataEl = ClearedMetadata /\ deck.cards = <<>>
    ELSE \E payload \in {p \in Payloads("local") : IsObject(p)}
                          \cup {EmptyObject},
            rawSelection \in RawSelections, rawBody \in RawBodies :
           LET contextInfo ==
                 NormalizeContext(InjectedFunc(rawSelection, rawBody))
           IN /\ contextInfo.text # <<>>
              /\ deck.cards = normalizeFlashcards(payload.cards)
              /\ (resultEl.kind = "empty") = (deck.cards = <<>>)
              /\ (resultEl.kind = "deck") = (deck.cards # <<>>)
              /\ metadataEl = renderMetadata(payload, contextInfo,
                                             resultEl.from)

\* a second run has failed while the deck and the panel of the first one
\* are on display
C31_Witness ==
  /\ variant = "local"
  /\ resultEl.kind = "deck"
  /\ resultEl.from = 1
  /\ ~metadataEl.hidden
  /\ metadataEl.from = 1
  /\ runs[2].outcome = "failed"

\* C32: in the .env build the key file is fetched once in a popup session,
\* by init(): no click on an action button, before or after the read has
\* settled, starts another fetch, whatever the read produced (a failed read
\* and a file without a key both produce ""); and every invocation that has
\* got past its await of the key holds the value the one promise resolved
\* with.
C32_KeyFetchedOnce ==
  variant = "env" =>
    /\ envApiKeyPromise.fetches <= 1
    /\ \A r \in RunIds :
         Running(r) \/ runs[r].outcome # "none" =>
           /\ envApiKeyPromise.state = "resolved"
           /\ runs[r].envKey = envApiKeyPromise.value

\* the read produced no key, and a second click on an action button has
\* just been turned away without another fetch
C32_Witness ==
  /\ variant = "env"
  /\ envApiKeyPromise.state = "resolved"
  /\ envApiKeyPromise.value = <<>>
  /\ envApiKeyPromise.fetches = 1
  /\ runs[1].pc = "done"
  /\ runs[2].outcome = "nokey"
  /\ runs[2].envKey = <<>>

====
